---- MODULE Spec2Model ----
(***************************************************************************)
(* Model of bipCPP (src/phangorn_bip.cpp): for an edge matrix `orig`       *)
(* (column 0 = parent, column 1 = child) and a tip count `nTips`, build    *)
(* one vector of tip labels per node id 1..max(parent).                    *)
(*                                                                         *)
(* The function is modelled statement by statement.  Indices keep the      *)
(* code's 0-based loop counters i and j; the vector of vectors `out` is a  *)
(* TLA+ sequence, so the C++ element out[k] is out[k + 1] here.            *)
(* Accesses outside out[0 .. m-1] are undefined behaviour in the C++       *)
(* program and are modelled as a nondeterministic choice between a crash,  *)
(* an exception surfacing as an error, and continuing with garbage.        *)
(***************************************************************************)
EXTENDS Integers, Sequences, FiniteSets

VARIABLES orig, nTips, m, out, y, i, j, pc, result, ub, saved

vars == <<orig, nTips, m, out, y, i, j, pc, result, ub, saved>>

(***************************************************************************)
(* Bounds of the model.                                                    *)
(***************************************************************************)
MaxEdges == 2       \* longest edge list of the unrestricted inputs
MaxId == 3          \* largest node id of the unrestricted inputs
MaxTips == 2        \* largest nTips of the unrestricted inputs
MaxNodes == 5       \* largest number of nodes of a valid tree
MaxCallEdges == 2   \* longest edge list of a repeated invocation
MaxCallId == 3      \* largest node id of a repeated invocation
MaxCallTips == 1    \* largest nTips of a repeated invocation

None == <<>>

(***************************************************************************)
(* Helpers on sequences.                                                   *)
(***************************************************************************)
Range(s) == {s[k] : k \in 1..Len(s)}

SeqsUpTo(S, n) == UNION {[1..k -> S] : k \in 0..n}

Max2(a, b) == IF a >= b THEN a ELSE b

\* column 0 and column 1 of the edge matrix, row k (1-based)
ParentOf(o, k) == o[k][1]
ChildOf(o, k) == o[k][2]

RECURSIVE MaxParentUpTo(_, _)
MaxParentUpTo(o, k) ==
    IF k = 1 THEN ParentOf(o, 1)
    ELSE Max2(MaxParentUpTo(o, k - 1), ParentOf(o, k))

\* variant: the parent of the last row, as if the root's edge came last
MaxParentLast(o) == ParentOf(o, Len(o))

\* max(parent) of a matrix with at least one row
MaxParent(o) == MaxParentUpTo(o, Len(o))

\* max(parent) of a matrix with no rows is not defined by the code: the
\* outcomes are a negative value (INT_MIN) or whatever the read produces.
EmptyMax == {-2147483647 - 1, 0, 1}

\* variant: the first internal id taken for a tip
IsInternalOff(c, t) == c > t + 1

\* children[i] > nTips
IsInternal(c, t) == c > t

\* variant: the 0-based index stored as the label
SeedValueOff(k) == k

\* out[i].push_back(i + 1L)
SeedValue(k) == k + 1

\* v.push_back(x)
PushBack(v, x) == Append(v, x)

\* variant: assignment in place of insertion at the end
InsertEndReplace(v, w) == w

\* v.insert(v.end(), w.begin(), w.end())
InsertEnd(v, w) == v \o w

\* std::sort(v.begin(), v.end()): ascending, by insertion
RECURSIVE InsertSorted(_, _)
InsertSorted(s, x) ==
    IF s = <<>> THEN <<x>>
    ELSE IF x <= Head(s) THEN <<x>> \o s
    ELSE <<Head(s)>> \o InsertSorted(Tail(s), x)

\* variant: no sort
SortNone(s) == s

RECURSIVE Sort(_)
Sort(s) ==
    IF s = <<>> THEN <<>>
    ELSE InsertSorted(Sort(Tail(s)), Head(s))

\* contents a read past the end of `out` can produce
GarbageVecs == {<<>>, <<1>>, <<2, 1>>}

\* what a write outside `out` can leave behind in the containers
Corrupt(o) ==
    {o} \cup {[o EXCEPT ![k] = g] : k \in 1..Len(o), g \in GarbageVecs}

(***************************************************************************)
(* Inputs.                                                                 *)
(***************************************************************************)
Ids == 0..MaxId

AnyInputs ==
    {<<o, t>> : o \in SeqsUpTo(Ids \X Ids, MaxEdges), t \in 0..MaxTips}

\* the state of a fresh invocation on input (o, t)
Fresh(o, t) ==
    /\ orig = o
    /\ nTips = t
    /\ m = 0
    /\ out = <<>>
    /\ y = <<>>
    /\ i = 0
    /\ j = 0
    /\ pc = "start"
    /\ result = None
    /\ ub = {}

Init ==
    /\ \E in \in AnyInputs : Fresh(in[1], in[2])
    /\ saved = None

(***************************************************************************)
(* bipCPP, one action per statement or loop iteration.                     *)
(***************************************************************************)

\* lines 9-14: m = max(parent); out(m); y
Start ==
    /\ pc = "start"
    /\ orig # <<>>
    /\ m' = MaxParent(orig)
    /\ IF m' < 0
         THEN /\ pc' = "error"
              /\ out' = out
         ELSE /\ pc' = "seed"
              /\ out' = [k \in 1..m' |-> <<>>]
    /\ y' = <<>>
    /\ i' = 0
    /\ j' = 0
    /\ UNCHANGED <<orig, nTips, result, ub, saved>>

\* lines 9-14 on a matrix with no rows: max over nothing
StartEmpty ==
    /\ pc = "start"
    /\ orig = <<>>
    /\ m' \in EmptyMax
    /\ ub' = ub \cup {"max"}
    /\ IF m' < 0
         THEN /\ pc' = "error"
              /\ out' = out
         ELSE /\ pc' = "seed"
              /\ out' = [k \in 1..m' |-> <<>>]
    /\ y' = <<>>
    /\ i' = 0
    /\ j' = 0
    /\ UNCHANGED <<orig, nTips, result, saved>>

\* lines 15-17, one iteration with out[i] inside the vector
SeedStep ==
    /\ pc = "seed"
    /\ i < nTips
    /\ i < m
    /\ out' = [out EXCEPT ![i + 1] = PushBack(@, SeedValue(i))]
    /\ i' = i + 1
    /\ UNCHANGED <<orig, nTips, m, y, j, pc, result, ub, saved>>

\* lines 15-17, one iteration with out[i] past the end of the vector
SeedOOB ==
    /\ pc = "seed"
    /\ i < nTips
    /\ i >= m
    /\ ub' = ub \cup {"seed"}
    /\ \/ /\ pc' = "crashed"
          /\ UNCHANGED <<out, i>>
       \/ /\ pc' = "error"
          /\ UNCHANGED <<out, i>>
       \/ /\ out' \in Corrupt(out)
          /\ i' = i + 1
          /\ pc' = pc
    /\ UNCHANGED <<orig, nTips, m, y, j, result, saved>>

\* line 15, loop exit; line 18, i = 0
SeedExit ==
    /\ pc = "seed"
    /\ i >= nTips
    /\ pc' = "edges"
    /\ i' = 0
    /\ UNCHANGED <<orig, nTips, m, out, y, j, result, ub, saved>>

\* variant of lines 18-25: the child's vector is moved from, not copied
EdgeStepMove ==
    /\ pc = "edges"
    /\ i < Len(orig)
    /\ LET p == ParentOf(orig, i + 1)
           c == ChildOf(orig, i + 1)
       IN /\ p \in 1..m
          /\ IsInternal(c, nTips) => c \in 1..m
          /\ j' = p - 1
          /\ IF IsInternal(c, nTips)
               THEN /\ y' = out[c]
                    /\ out' = [[out EXCEPT ![c] = <<>>]
                                  EXCEPT ![p] = InsertEnd(@, y')]
               ELSE /\ y' = y
                    /\ out' = [out EXCEPT ![p] = PushBack(@, c)]
    /\ i' = i + 1
    /\ UNCHANGED <<orig, nTips, m, pc, result, ub, saved>>

\* lines 18-25, one iteration with both out[j] and out[children[i]-1]
\* inside the vector
EdgeStep ==
    /\ pc = "edges"
    /\ i < Len(orig)
    /\ LET p == ParentOf(orig, i + 1)
           c == ChildOf(orig, i + 1)
       IN /\ p \in 1..m
          /\ IsInternal(c, nTips) => c \in 1..m
          /\ j' = p - 1
          /\ IF IsInternal(c, nTips)
               THEN /\ y' = out[c]
                    /\ out' = [out EXCEPT ![p] = InsertEnd(@, y')]
               ELSE /\ y' = y
                    /\ out' = [out EXCEPT ![p] = PushBack(@, c)]
    /\ i' = i + 1
    /\ UNCHANGED <<orig, nTips, m, pc, result, ub, saved>>

\* lines 18-25, one iteration that reads or writes outside the vector
EdgeOOB ==
    /\ pc = "edges"
    /\ i < Len(orig)
    /\ LET p == ParentOf(orig, i + 1)
           c == ChildOf(orig, i + 1)
           readOOB == IsInternal(c, nTips) /\ c \notin 1..m
           writeOOB == p \notin 1..m
       IN /\ readOOB \/ writeOOB
          /\ j' = p - 1
          /\ \/ /\ pc' = "crashed"
                /\ ub' = ub \cup (IF readOOB THEN {"read"} ELSE {"write"})
                /\ UNCHANGED <<out, y, i>>
             \/ /\ pc' = "error"
                /\ ub' = ub \cup (IF readOOB THEN {"read"} ELSE {"write"})
                /\ UNCHANGED <<out, y, i>>
             \/ /\ pc' = pc
                /\ ub' = ub \cup (IF readOOB THEN {"read"} ELSE {})
                             \cup (IF writeOOB THEN {"write"} ELSE {})
                /\ y' \in (IF ~IsInternal(c, nTips) THEN {y}
                           ELSE IF readOOB THEN GarbageVecs
                           ELSE {out[c]})
                /\ IF writeOOB
                     THEN out' \in Corrupt(out)
                     ELSE out' = [out EXCEPT ![p] =
                                    IF IsInternal(c, nTips)
                                      THEN InsertEnd(@, y')
                                      ELSE PushBack(@, c)]
                /\ i' = i + 1
    /\ UNCHANGED <<orig, nTips, m, result, saved>>

\* line 18, loop exit; line 26, i = 0
EdgesExit ==
    /\ pc = "edges"
    /\ i >= Len(orig)
    /\ pc' = "sort"
    /\ i' = 0
    /\ UNCHANGED <<orig, nTips, m, out, y, j, result, ub, saved>>

\* lines 26-28, one iteration
SortStep ==
    /\ pc = "sort"
    /\ i < m
    /\ out' = [out EXCEPT ![i + 1] = Sort(@)]
    /\ i' = i + 1
    /\ UNCHANGED <<orig, nTips, m, y, j, pc, result, ub, saved>>

\* line 26, loop exit; line 29, return wrap(out)
Return ==
    /\ pc = "sort"
    /\ i >= m
    /\ result' = out
    /\ pc' = "done"
    /\ UNCHANGED <<orig, nTips, m, out, y, i, j, ub, saved>>

Next ==
    \/ Start
    \/ StartEmpty
    \/ SeedStep
    \/ SeedOOB
    \/ SeedExit
    \/ EdgeStep
    \/ EdgeOOB
    \/ EdgesExit
    \/ SortStep
    \/ Return

Spec == Init /\ [][Next]_vars

(***************************************************************************)
(* Valid rooted trees on the nodes 1..n with tips 1..t, their edges in     *)
(* every order: the inputs the documentation of bipCPP has in mind.        *)
(***************************************************************************)
RECURSIVE ReachesRoot(_, _, _, _)
ReachesRoot(f, u, r, fuel) ==
    IF u = r THEN TRUE
    ELSE IF fuel = 0 THEN FALSE
    ELSE ReachesRoot(f, f[u], r, fuel - 1)

\* parent maps of the trees with root r: every internal node has a child,
\* every node hangs below the root
ParentMaps(n, t, r) ==
    {f \in [(1..n) \ {r} -> (t + 1)..n] :
        /\ \A v \in (t + 1)..n : \E u \in DOMAIN f : f[u] = v
        /\ \A u \in DOMAIN f : ReachesRoot(f, u, r, n)}

Orders(S) ==
    {s \in [1..Cardinality(S) -> S] :
        \A a, b \in DOMAIN s : a # b => s[a] # s[b]}

\* the edge matrix of the tree with parent map f, its edges in the order s
\* of their children
EdgeList(f, s) == [k \in 1..Len(s) |-> <<f[s[k]], s[k]>>]

InitTree ==
    /\ \E n \in 2..MaxNodes : \E t \in 1..(n - 1) : \E r \in (t + 1)..n :
         LET maps == ParentMaps(n, t, r)
             orders == Orders((1..n) \ {r})
         IN \E f \in maps : \E s \in orders : Fresh(EdgeList(f, s), t)
    /\ saved = None

NextTree ==
    \/ Start
    \/ SeedStep
    \/ SeedExit
    \/ EdgeStep
    \/ EdgesExit
    \/ SortStep
    \/ Return

SpecTree == InitTree /\ [][NextTree]_vars

(***************************************************************************)
(* Repeated invocations through the exported wrapper: every call runs      *)
(* bipCPP on its own arguments and locals.  `saved` remembers the input    *)
(* and the result of one earlier invocation.                               *)
(***************************************************************************)
CallIds == 1..MaxCallId

\* non-empty edge lists of positive ids
CallInputs ==
    {<<o, t>> : o \in SeqsUpTo(CallIds \X CallIds, MaxCallEdges) \ {<<>>},
                t \in 1..MaxCallTips}

InitCalls ==
    /\ \E in \in CallInputs : Fresh(in[1], in[2])
    /\ saved = None

\* lines 33-42: the next call of _phangorn_bipCPP
Reinvoke ==
    /\ pc \in {"done", "error"}
    /\ saved' \in (IF saved = None /\ pc = "done"
                     THEN {None,
                           [orig |-> orig, nTips |-> nTips, result |-> result]}
                     ELSE {saved})
    /\ \E in \in CallInputs :
          /\ orig' = in[1]
          /\ nTips' = in[2]
    /\ m' = 0
    /\ out' = <<>>
    /\ y' = <<>>
    /\ i' = 0
    /\ j' = 0
    /\ pc' = "start"
    /\ result' = None
    /\ ub' = {}

NextCalls ==
    \/ Start
    \/ SeedStep
    \/ SeedExit
    \/ EdgeStep
    \/ EdgeOOB
    \/ EdgesExit
    \/ SortStep
    \/ Return
    \/ Reinvoke

SpecCalls == InitCalls /\ [][NextCalls]_vars

(***************************************************************************)
(* The tree an edge list describes, independently of bipCPP.               *)
(***************************************************************************)
Children(o, v) == {ChildOf(o, k) : k \in {k \in 1..Len(o) : ParentOf(o, k) = v}}

\* x is v or is reachable from v along edges (fuel bounds the path length)
RECURSIVE IsBelow(_, _, _, _)
IsBelow(o, x, v, fuel) ==
    \/ x = v
    \/ /\ fuel > 0
       /\ \E k \in 1..Len(o) :
             ChildOf(o, k) = x /\ IsBelow(o, ParentOf(o, k), v, fuel - 1)

\* the tips reachable from v via the edge list
LeafSet(o, t, v) == {x \in 1..t : IsBelow(o, x, v, Len(o))}

RECURSIVE Ascending(_)
Ascending(S) ==
    IF S = {} THEN <<>>
    ELSE LET x == CHOOSE a \in S : \A b \in S : a <= b
         IN <<x>> \o Ascending(S \ {x})

LargestParent(o) ==
    CHOOSE a \in {ParentOf(o, k) : k \in 1..Len(o)} :
        \A k \in 1..Len(o) : ParentOf(o, k) <= a

\* every edge into an internal node comes after all edges out of that node
PostorderConsistent(o, t) ==
    \A k, k2 \in 1..Len(o) :
        (ChildOf(o, k) > t /\ ParentOf(o, k2) = ChildOf(o, k)) => k2 < k

NonDecreasing(s) == \A a, b \in 1..Len(s) : a < b => s[a] <= s[b]

Increasing(s) == \A a, b \in 1..Len(s) : a < b => s[a] < s[b]

\* the node that is nobody's child
RootOf(o) ==
    IF LargestParent(o) \notin {ChildOf(o, k) : k \in 1..Len(o)}
      THEN LargestParent(o)
      ELSE CHOOSE v \in 1..LargestParent(o) :
               v \notin {ChildOf(o, k) : k \in 1..Len(o)}

\* C1: for a valid tree with postorder-consistent edges the result has one
\* entry per node id 1..maxNodeId, and entry i is the ascending list of
\* exactly the tips reachable from i; for a tip i that is [i].
C1_DescendantTips ==
    (pc = "done" /\ PostorderConsistent(orig, nTips)) =>
        /\ DOMAIN result = 1..LargestParent(orig)
        /\ \A v \in 1..LargestParent(orig) :
               result[v] = Ascending(LeafSet(orig, nTips, v))
        /\ \A v \in 1..nTips : result[v] = <<v>>

C1_Witness ==
    /\ pc = "done"
    /\ PostorderConsistent(orig, nTips)
    /\ nTips >= 2
    /\ \E k \in 1..Len(orig) :
          /\ ChildOf(orig, k) > nTips
          /\ Len(result[ParentOf(orig, k)]) > Len(result[ChildOf(orig, k)])
          /\ Len(result[ChildOf(orig, k)]) >= 2

\* C2: for a valid tree with postorder-consistent edges, the result of every
\* internal node is the union of the results of its children, strictly
\* ascending (sorted, no duplicate label).
C2_UnionOfChildren ==
    (pc = "done" /\ PostorderConsistent(orig, nTips)) =>
        \A v \in (nTips + 1)..Len(result) :
            /\ Range(result[v]) =
                   UNION {Range(result[c]) : c \in Children(orig, v)}
            /\ Increasing(result[v])

C2_Witness ==
    /\ pc = "done"
    /\ PostorderConsistent(orig, nTips)
    /\ \E v \in (nTips + 1)..Len(result) :
          /\ Cardinality(Children(orig, v)) >= 2
          /\ \E c \in Children(orig, v) : c > nTips /\ Len(result[c]) >= 2
          /\ \E k \in 1..(Len(orig) - 1) :
                /\ ParentOf(orig, k) = v
                /\ ParentOf(orig, k + 1) = v
                /\ ChildOf(orig, k) <= nTips
                /\ ChildOf(orig, k + 1) > nTips

\* C3: for a valid tree with postorder-consistent edges, the result of the
\* root (maxNodeId, or the id that is never a child when maxNodeId is one)
\* is the full tip list 1, 2, ..., nTips.
C3_RootHasAllTips ==
    (pc = "done" /\ PostorderConsistent(orig, nTips)) =>
        result[RootOf(orig)] = [k \in 1..nTips |-> k]

C3_Witness ==
    /\ pc = "done"
    /\ PostorderConsistent(orig, nTips)
    /\ nTips >= 3
    /\ RootOf(orig) # LargestParent(orig)
    /\ result[RootOf(orig)] = [k \in 1..nTips |-> k]

HasNonPositiveId(o) ==
    \E k \in 1..Len(o) : ParentOf(o, k) <= 0 \/ ChildOf(o, k) <= 0

\* C4: if an edge has a parent or child id that is 0 or negative, the build
\* ends in an error and returns nothing: it never completes, no container
\* holds a non-positive label and no container at a non-positive index is
\* accessed.
C4_NonPositiveIdRejected ==
    HasNonPositiveId(orig) =>
        /\ pc # "done"
        /\ "write" \notin ub
        /\ \A v \in 1..Len(out) : \A x \in Range(out[v]) : x >= 1

\* C5: if an edge has a non-tip child greater than the largest parent id,
\* the build ends in an error: it never reads a container outside
\* 1..maxNodeId and never returns a result.
C5_ChildBeyondMaxRejected ==
    (\E k \in 1..Len(orig) :
        ChildOf(orig, k) > nTips /\ ChildOf(orig, k) > LargestParent(orig)) =>
        /\ pc # "done"
        /\ "read" \notin ub

\* C6: on an empty edge list the build ends in an error and produces no
\* result; no container is allocated or seeded.
C6_EmptyEdgeListRejected ==
    orig = <<>> =>
        /\ pc \in {"start", "error"}
        /\ out = <<>>
        /\ result = None

\* all ids within 1..maxNodeId and 1 <= nTips <= maxNodeId
InRange(o, t) ==
    /\ o # <<>>
    /\ \A k \in 1..Len(o) :
          /\ ParentOf(o, k) >= 1
          /\ ChildOf(o, k) \in 1..LargestParent(o)
    /\ t \in 1..LargestParent(o)

\* C7: whenever the build returns on an input with all ids in 1..maxNodeId
\* and 1 <= nTips <= maxNodeId, in any edge order, the result has exactly
\* maxNodeId entries (maxNodeId the largest parent id) and every entry is in
\* ascending order.
C7_ShapeOfResult ==
    (pc = "done" /\ InRange(orig, nTips)) =>
        /\ Len(result) = LargestParent(orig)
        /\ \A v \in 1..Len(result) : NonDecreasing(result[v])

C7_Witness ==
    /\ pc = "done"
    /\ InRange(orig, nTips)
    /\ \E k \in 1..(Len(orig) - 1) :
          /\ ParentOf(orig, k) = ParentOf(orig, k + 1)
          /\ ChildOf(orig, k) <= nTips
          /\ ChildOf(orig, k + 1) < ChildOf(orig, k)

\* C8: an invocation that returns on the same edge list and nTips as an
\* earlier invocation returns the same result, whatever ran in between.
C8_SameInputSameResult ==
    (pc = "done" /\ saved # None /\ saved.orig = orig /\ saved.nTips = nTips)
        => result = saved.result

\* the same, for inputs with all ids in 1..maxNodeId and nTips <= maxNodeId:
\* there no access leaves the vector and the result is a function of the input
SameInputSameResultInRange ==
    (pc = "done" /\ saved # None /\ saved.orig = orig /\ saved.nTips = nTips
        /\ InRange(orig, nTips))
        => result = saved.result

\* an edge into internal node c at row k, an edge out of c at a later row k2
OutOfOrder(o, t, k, k2) ==
    /\ k < k2
    /\ ChildOf(o, k) > t
    /\ ParentOf(o, k2) = ChildOf(o, k)

\* C9: on a valid tree whose edges are in any order the build never takes an
\* error path and always goes on to return; a container only ever holds tips
\* of its node's subtree; and where edge (p, c) precedes an edge (c, x), no
\* tip below x is in result[p], so result[p] is a strict subset of the leaf
\* set of p.
C9_SilentlyIncomplete ==
    /\ pc \notin {"error", "crashed"}
    /\ ~ENABLED StartEmpty
    /\ ~ENABLED SeedOOB
    /\ ~ENABLED EdgeOOB
    /\ pc # "done" => ENABLED NextTree
    /\ \A v \in 1..Len(out) : \A x \in Range(out[v]) :
          x \in 1..nTips /\ IsBelow(orig, x, v, Len(orig))
    /\ pc = "done" =>
          \A k, k2 \in 1..Len(orig) :
              OutOfOrder(orig, nTips, k, k2) =>
                  LET p == ParentOf(orig, k)
                      x == ChildOf(orig, k2)
                  IN /\ Range(result[p]) \cap LeafSet(orig, nTips, x) = {}
                     /\ Range(result[p]) # LeafSet(orig, nTips, p)

C9_Witness ==
    /\ pc = "done"
    /\ \E k, k2 \in 1..Len(orig) :
          /\ OutOfOrder(orig, nTips, k, k2)
          /\ k > 1
          /\ ParentOf(orig, k - 1) = ChildOf(orig, k)
          /\ result[ParentOf(orig, k)] # <<>>
          /\ Range(result[ParentOf(orig, k)]) #
                 LeafSet(orig, nTips, ParentOf(orig, k))

\* C10: a step that processes edge (parent, child), parent # child, leaves
\* every container but the parent's unchanged, the child's included, and
\* keeps the old contents of the parent's container as a prefix of the new.
C10_OnlyParentGrows ==
    [][(pc = "edges" /\ pc' = "edges" /\ i' = i + 1) =>
          LET p == ParentOf(orig, i + 1)
              c == ChildOf(orig, i + 1)
          IN p # c =>
                /\ DOMAIN out' = DOMAIN out
                /\ \A v \in DOMAIN out : v # p => out'[v] = out[v]
                /\ Len(out'[p]) >= Len(out[p])
                /\ SubSeq(out'[p], 1, Len(out[p])) = out[p]]_vars

\* the parent of an earlier internal-child edge has just been appended to
\* again, and the child still holds what was copied
C10_Witness ==
    /\ pc = "edges"
    /\ i >= 2
    /\ \E k \in 1..(i - 1) :
          LET p == ParentOf(orig, k)
              c == ChildOf(orig, k)
          IN /\ c > nTips
             /\ p # c
             /\ ParentOf(orig, i) = p
             /\ out[c] # <<>>
             /\ Len(out[p]) > Len(out[c])
             /\ SubSeq(out[p], 1, Len(out[c])) = out[c]

====
